---------------------------- MODULE Spec2Model ----------------------------
(* The multi-agent hub of tychase/Council: the four-stage aggregation      *)
(* pipeline (agents/agent_manager.py), the context store and its HTTP      *)
(* handlers (flask_app.py, models.py) and the background run               *)
(* (agents/routes.py, agents/real_agent_runner.py).                        *)
(*                                                                         *)
(* Numbers that are floats in the program are kept in hundredths           *)
(* (confidence 0.0 is 0, agreement_level 0.5 is 50).                       *)
EXTENDS Integers, Sequences, FiniteSets, TLC

VARIABLES
    \* ---- one call of AgentManager.process_question ----
    roster,      \* self.agents, in dict insertion order: a sequence of agent ids
    result,      \* the local dict `result` (without its constant "question" entry)
    stage,       \* which of the four loops is running; "done" after the last; "returned"
    i,           \* position of the (outer) loop over self.agents.items()
    j,           \* position of the inner loop over result["responses"].items()
    inflight,    \* the awaited call, <<stage, agent, target>>, or NoCall
    started,     \* observation: the calls that have started
    completed,   \* observation: the calls that have returned or raised
    raised,      \* observation: the calls that raised
    conclArg,    \* observation: the `context` argument each generate_conclusion received
    critArg,     \* observation: the response each generate_critique received, by <<agent, target>>
    \* ---- the web service: database, request handlers, background threads ----
    env,         \* the provider keys set in the process environment
    questions,   \* table `questions`: rows [id, text]
    contexts,    \* table `contexts`: rows [id, question_id, responses, critiques, research, conclusions]
    nextId,      \* the uuid4 values handed out so far (each new one is fresh)
    handlers,    \* the request threads inside submit_agent_response
    runs,        \* the process_in_thread threads, by question id
    nSubmits,    \* direct submissions taken up so far (the rejected ones change nothing)
    deleted,     \* observation: the ids whose DELETE succeeded
    api_keys     \* table `api_keys`: rows [id, key, agent_id, agent_name, last_used_at, is_active]

pvars == <<roster, result, stage, i, j, inflight, started, completed, raised, conclArg,
          critArg>>

svars == <<env, questions, contexts, nextId, handlers, runs, nSubmits, deleted,
          api_keys>>

vars == <<pvars, svars>>

-----------------------------------------------------------------------------
(* Agents                                                                  *)

AgentIds == {"agent-gpt", "agent-claude", "agent-grok"}

AgentName(a) ==
    CASE a = "agent-gpt"    -> "GPT Assistant"
      [] a = "agent-claude" -> "Claude AI"
      [] a = "agent-grok"   -> "Grok AI"

\* The provider keys the environment may hold.
ProviderKeys == {"ANTHROPIC_API_KEY", "OPENAI_API_KEY", "PERPLEXITY_API_KEY"}

MockRoster == <<"agent-gpt", "agent-claude", "agent-grok">>

\* Without the fallback to the mock agents.
InitializeAgentsNoFallback(use_real_agents, environ) ==
    LET real == (IF "ANTHROPIC_API_KEY" \in environ THEN <<"agent-claude">> ELSE <<>>)
             \o (IF "OPENAI_API_KEY" \in environ THEN <<"agent-gpt">> ELSE <<>>)
             \o (IF "PERPLEXITY_API_KEY" \in environ THEN <<"agent-grok">> ELSE <<>>)
    IN  IF use_real_agents THEN real ELSE MockRoster

\* AgentManager._initialize_agents: the agents whose key is present, in the order
\* the code adds them; the three mock agents when that leaves none, or when
\* use_real_agents is false.
InitializeAgents(use_real_agents, environ) ==
    LET real == (IF "ANTHROPIC_API_KEY" \in environ THEN <<"agent-claude">> ELSE <<>>)
             \o (IF "OPENAI_API_KEY" \in environ THEN <<"agent-gpt">> ELSE <<>>)
             \o (IF "PERPLEXITY_API_KEY" \in environ THEN <<"agent-grok">> ELSE <<>>)
    IN  IF use_real_agents /\ real # <<>> THEN real ELSE MockRoster

\* Every roster a constructed AgentManager can hold.
Rosters == { InitializeAgents(u, environ) : u \in BOOLEAN, environ \in SUBSET ProviderKeys }

-----------------------------------------------------------------------------
(* Payloads                                                                *)

\* str(e) of the exception a failing call raises.
ErrorText == "boom"

\* What an agent's own generate_response returns (agent_simulator.generate_response:
\* a text that differs per agent, a confidence drawn from [0.7, 0.95]).
AgentResponse(a) ==
    [content |-> "response of " \o a, confidence |-> 80, reasoning |-> "reasoning of " \o a]

\* agent_simulator.generate_critique
AgentCritique(a, b, target_response) ==
    [target_agent |-> b, critique |-> "critique by " \o a, agreement_level |-> 60,
     key_points |-> <<"point1", "point2", "point3">>]

\* agent_simulator.generate_research
AgentResearch(a) ==
    [findings |-> "findings of " \o a,
     sources |-> <<[title |-> "Journal of AI", year |-> 2020, relevance |-> 80]>>,
     confidence |-> 80]

\* agent_simulator.generate_conclusion
AgentConclusion(a) ==
    [summary |-> "conclusion of " \o a,
     key_takeaways |-> <<"takeaway1", "takeaway2", "takeaway3">>,
     confidence |-> 80, final_position |-> "cautious"]

\* The placeholders of process_question's except branches.
ResponsePlaceholder(a) ==
    [content |-> "Error: " \o ErrorText, confidence |-> 0, agent_name |-> AgentName(a)]

CritiquePlaceholder(a, b) ==
    [target_agent |-> b, critique |-> "Error: " \o ErrorText, agreement_level |-> 50,
     key_points |-> <<"Error occurred: " \o ErrorText>>, agent_name |-> AgentName(a)]

ResearchPlaceholder(a) ==
    [findings |-> "Error: " \o ErrorText, sources |-> <<>>, confidence |-> 0,
     agent_name |-> AgentName(a)]

ConclusionPlaceholder(a) ==
    [summary |-> "Error: " \o ErrorText,
     key_takeaways |-> <<"Error occurred: " \o ErrorText>>,
     confidence |-> 0, final_position |-> "neutral", agent_name |-> AgentName(a)]

-----------------------------------------------------------------------------
(* Python dicts as functions                                               *)

EmptyMap == <<>>

\* d[k] = v
Put(d, k, v) == [x \in (DOMAIN d) \cup {k} |-> IF x = k THEN v ELSE d[x]]

\* The dict `result` of process_question as it is created.
EmptyResult ==
    [responses |-> EmptyMap, critiques |-> EmptyMap, research |-> EmptyMap,
     conclusions |-> EmptyMap]

\* result["critiques"][a][b] = v, creating result["critiques"][a] when absent
PutCritique(critiques, a, b, v) ==
    Put(critiques, a, Put(IF a \in DOMAIN critiques THEN critiques[a] ELSE EmptyMap, b, v))


-----------------------------------------------------------------------------
(* AgentManager.process_question, one awaited call at a time               *)

NoCall == <<"none", "-", "-">>

\* The loop that follows loop s in the body of process_question.
NextStageSwapped(s) ==
    CASE s = "response"   -> "research"
      [] s = "research"   -> "critique"
      [] s = "critique"   -> "conclusion"
      [] OTHER            -> "done"

NextStage(s) ==
    CASE s = "response"   -> "critique"
      [] s = "critique"   -> "research"
      [] s = "research"   -> "conclusion"
      [] OTHER            -> "done"

\* result["responses"].items(): the keys in insertion order, which is the order
\* of the response loop over self.agents.
ResponseKeys(res, ros) == SelectSeq(ros, LAMBDA a : a \in DOMAIN res.responses)

\* `if agent_id != target_id`
IsCritiquePairAny(a, b) == TRUE

IsCritiquePair(a, b) == a # b

\* The next position, from (s, ii, jj) on, at which the loops make a call:
\* the loop headers and the self-pair test of process_question.
RECURSIVE Seek(_, _, _, _, _)
Seek(s, ii, jj, ros, keys) ==
    IF s = "done" THEN [stage |-> "done", i |-> 0, j |-> 0]
    ELSE IF ii > Len(ros) THEN Seek(NextStage(s), 1, 1, ros, keys)
    ELSE IF s = "critique" THEN
        IF jj > Len(keys) THEN Seek(s, ii + 1, 1, ros, keys)
        ELSE IF IsCritiquePair(ros[ii], keys[jj])
             THEN [stage |-> s, i |-> ii, j |-> jj]
             ELSE Seek(s, ii, jj + 1, ros, keys)
    ELSE [stage |-> s, i |-> ii, j |-> 0]

\* The position after the call at (s, ii, jj).
AfterStuck(s, ii, jj, ros, keys) == [stage |-> s, i |-> ii, j |-> jj]

After(s, ii, jj, ros, keys) ==
    IF s = "critique" THEN Seek(s, ii, jj + 1, ros, keys) ELSE Seek(s, ii + 1, 1, ros, keys)

\* The call made at the current position.
CallAt(s, ii, jj, ros, keys) ==
    <<s, ros[ii], IF s = "critique" THEN keys[jj] ELSE "-">>

\* The try branches: the awaited call returned, its payload is stored.
StoreReturned(res, call) ==
    LET a == call[2]
        b == call[3]
    IN  CASE call[1] = "response" ->
               [res EXCEPT !.responses = Put(@, a, AgentResponse(a))]
          [] call[1] = "critique" ->
               [res EXCEPT !.critiques =
                    PutCritique(@, a, b, AgentCritique(a, b, res.responses[b]))]
          [] call[1] = "research" ->
               [res EXCEPT !.research = Put(@, a, AgentResearch(a))]
          [] call[1] = "conclusion" ->
               [res EXCEPT !.conclusions = Put(@, a, AgentConclusion(a))]

\* The except branches: the awaited call raised, a placeholder is stored.
StoreRaisedDropped(res, call) == res

StoreRaisedReset(res, call) ==
    LET a == call[2]
        b == call[3]
    IN  CASE call[1] = "response" ->
               [res EXCEPT !.responses = Put(@, a, ResponsePlaceholder(a))]
          [] call[1] = "critique" ->
               [res EXCEPT !.critiques = Put(@, a, (b :> CritiquePlaceholder(a, b)))]
          [] call[1] = "research" ->
               [res EXCEPT !.research = (a :> ResearchPlaceholder(a))]
          [] call[1] = "conclusion" ->
               [res EXCEPT !.conclusions = (a :> ConclusionPlaceholder(a))]

StoreRaised(res, call) ==
    LET a == call[2]
        b == call[3]
    IN  CASE call[1] = "response" ->
               [res EXCEPT !.responses = Put(@, a, ResponsePlaceholder(a))]
          [] call[1] = "critique" ->
               [res EXCEPT !.critiques = PutCritique(@, a, b, CritiquePlaceholder(a, b))]
          [] call[1] = "research" ->
               [res EXCEPT !.research = Put(@, a, ResearchPlaceholder(a))]
          [] call[1] = "conclusion" ->
               [res EXCEPT !.conclusions = Put(@, a, ConclusionPlaceholder(a))]

\* What generate_critique(question, target_id, target_response) is handed: the
\* value of the item (target_id, target_response) of result["responses"].
TargetResponseFresh(res, b) == AgentResponse(b)

TargetResponse(res, b) == res.responses[b]

\* What generate_conclusion(question, result) is handed: the dict `result` itself,
\* which the callee reads (GPTAgent: json.dumps(context)) as it is at the call.
ConclusionContext(res) == res

InitPipeline ==
    /\ roster \in Rosters
    /\ result = EmptyResult
    /\ LET p == Seek("response", 1, 1, roster, <<>>)
       IN  stage = p.stage /\ i = p.i /\ j = p.j
    /\ inflight = NoCall
    /\ started = {}
    /\ completed = {}
    /\ raised = {}
    /\ conclArg = EmptyMap
    /\ critArg = EmptyMap
    /\ env = {}
    /\ questions = {}
    /\ contexts = {}
    /\ nextId = 1
    /\ handlers = <<>>
    /\ runs = <<>>
    /\ nSubmits = 0
    /\ deleted = {}
    /\ api_keys = {}

\* `await agent.generate_...(...)` is entered.
CallStart ==
    /\ stage \in {"response", "critique", "research", "conclusion"}
    /\ inflight = NoCall
    /\ LET call == CallAt(stage, i, j, roster, ResponseKeys(result, roster))
       IN  /\ inflight' = call
           /\ started' = started \cup {call}
           /\ conclArg' = IF stage = "conclusion"
                          THEN Put(conclArg, call[2], ConclusionContext(result))
                          ELSE conclArg
           /\ critArg' = IF stage = "critique"
                         THEN Put(critArg, <<call[2], call[3]>>,
                                  TargetResponse(result, call[3]))
                         ELSE critArg
    /\ UNCHANGED <<roster, result, stage, i, j, completed, raised, svars>>

\* The awaited call returns its payload.
CallReturn ==
    /\ inflight # NoCall
    /\ result' = StoreReturned(result, inflight)
    /\ completed' = completed \cup {inflight}
    /\ inflight' = NoCall
    /\ LET p == After(stage, i, j, roster, ResponseKeys(result', roster))
       IN  stage' = p.stage /\ i' = p.i /\ j' = p.j
    /\ UNCHANGED <<roster, started, raised, conclArg, critArg, svars>>

\* The awaited call raises an Exception.
CallRaise ==
    /\ inflight # NoCall
    /\ result' = StoreRaised(result, inflight)
    /\ completed' = completed \cup {inflight}
    /\ raised' = raised \cup {inflight}
    /\ inflight' = NoCall
    /\ LET p == After(stage, i, j, roster, ResponseKeys(result', roster))
       IN  stage' = p.stage /\ i' = p.i /\ j' = p.j
    /\ UNCHANGED <<roster, started, conclArg, critArg, svars>>

\* `return result`
PipelineReturn ==
    /\ stage = "done"
    /\ stage' = "returned"
    /\ UNCHANGED <<roster, result, i, j, inflight, started, completed, raised, conclArg, critArg, svars>>

NextPipeline == CallStart \/ CallReturn \/ CallRaise \/ PipelineReturn

SpecPipeline == InitPipeline /\ [][NextPipeline]_vars


-----------------------------------------------------------------------------
(* Properties of process_question                                          *)

RosterSet == {roster[k] : k \in 1..Len(roster)}

\* The entries of a two-level map, as (outer key, inner key) pairs.
Entries2(m) == UNION { {<<a, b>> : b \in DOMAIN m[a]} : a \in DOMAIN m }

OrderedPairs == {<<a, b>> \in RosterSet \X RosterSet : a # b}

\* The calls stage s is to make for the roster.
ExpectedCalls(s) ==
    IF s = "critique" THEN {<<s, p[1], p[2]>> : p \in OrderedPairs}
    ELSE {<<s, a, "-">> : a \in RosterSet}

StageRank(s) ==
    CASE s = "response" -> 1 [] s = "critique" -> 2 [] s = "research" -> 3
      [] s = "conclusion" -> 4 [] OTHER -> 5

Stages == {"response", "critique", "research", "conclusion"}

\* C1: when process_question returns, whatever calls raised, the critiques map
\* holds exactly one entry critiques[A][B] for each ordered pair of distinct
\* roster agents (N*(N-1) of them), none for a self-pair, and is empty for a
\* roster of one.
C1_CritiquePairs ==
    stage = "returned" =>
        /\ Entries2(result.critiques) = OrderedPairs
        /\ Cardinality(Entries2(result.critiques)) = Len(roster) * (Len(roster) - 1)
        /\ \A a \in DOMAIN result.critiques : a \notin DOMAIN result.critiques[a]
        /\ (Len(roster) = 1 => result.critiques = EmptyMap)

C1_Witness ==
    /\ stage = "returned"
    /\ Len(roster) = 3
    /\ \E c \in raised : c[1] = "critique"
    /\ \E c \in raised : c[1] = "response"
    /\ Cardinality(Entries2(result.critiques)) = 6

\* C2: stage barrier. A call of a stage has started only if every call of every
\* earlier stage (RESPONSE, CRITIQUE, RESEARCH, CONCLUSION in that order) has
\* completed, by returning or by raising.
C2_StageBarrier ==
    \A c \in started :
        \A s \in Stages :
            StageRank(s) < StageRank(c[1]) => ExpectedCalls(s) \subseteq completed

C2_Witness ==
    /\ inflight[1] = "critique"
    /\ Len(roster) = 3
    /\ \E c \in raised : c[1] = "response"
    /\ \E c \in completed \ raised : c[1] = "response"

\* C3: degrade, not abort. When process_question returns after some
\* generate_response call raised, responses holds the placeholder (confidence
\* 0.0) under each failing agent and every other agent's own payload, and every
\* call of the critique, research and conclusion stages has been made.
C3_DegradeNotAbort ==
    (stage = "returned" /\ \E c \in raised : c[1] = "response") =>
        /\ DOMAIN result.responses = RosterSet
        /\ \A a \in RosterSet :
              /\ a \in DOMAIN result.responses
              /\ IF <<"response", a, "-">> \in raised
                 THEN /\ result.responses[a] = ResponsePlaceholder(a)
                      /\ result.responses[a].confidence = 0
                 ELSE result.responses[a] = AgentResponse(a)
        /\ \A s \in Stages : ExpectedCalls(s) \subseteq completed

C3_Witness ==
    /\ stage = "returned"
    /\ Len(roster) = 3
    /\ Cardinality({c \in raised : c[1] = "response"}) = 1
    /\ \E a \in RosterSet : result.responses[a] = AgentResponse(a)

\* C6: every generate_conclusion call receives a context whose conclusions map
\* is empty: it never holds the conclusion of an agent processed earlier in the
\* stage.
C6_ConclusionSnapshot ==
    \A a \in DOMAIN conclArg : conclArg[a].conclusions = EmptyMap


-----------------------------------------------------------------------------
(* The pipeline run as a whole, for the background thread                  *)

\* process_question from position pos on, the calls in `fails` raising.
RECURSIVE RunFrom(_, _, _, _)
RunFrom(res, pos, ros, fails) ==
    IF pos.stage = "done" THEN res
    ELSE LET call == CallAt(pos.stage, pos.i, pos.j, ros, ResponseKeys(res, ros))
             res2 == IF call \in fails THEN StoreRaised(res, call)
                                       ELSE StoreReturned(res, call)
         IN  RunFrom(res2,
                     After(pos.stage, pos.i, pos.j, ros, ResponseKeys(res2, ros)),
                     ros, fails)

ProcessQuestion(ros, fails) ==
    RunFrom(EmptyResult, Seek("response", 1, 1, ros, <<>>), ros, fails)

\* The failure patterns the background runs are tried with: no call raises
\* (SpecPipeline goes through every pattern of raising calls).
FailurePatterns(ros) == {{}}

\* The except branch of process_question_with_agents: {"error", "question"}.
ErrorResult == [error |-> "error", question |-> "question"]

-----------------------------------------------------------------------------
(* The database and the ORM                                                *)

MaxQuestions == 2
MaxSubmits == 2

Handlers == {"h1", "h2"}

\* The environment the service is started in: the OpenAI key alone, so that
\* use_real_agents chooses between a roster of one and the three mock agents.
EnvChoices == {{"OPENAI_API_KEY"}}

Texts == {"What is X?"}

Columns == {"responses", "critiques", "research", "conclusions"}

\* uuid.uuid4(): the n-th value drawn differs from all drawn before.
Uuid4Reused(n) == 1

Uuid4(n) == n

\* The question ids a request may name: every id that is ever handed out to a
\* question, and one that never is.
RequestIds == {0} \cup {2 * k - 1 : k \in 1..MaxQuestions}

\* Context.query.filter_by(question_id=q)
ContextsOf(ctxs, q) == {c \in ctxs : c.question_id = q}

\* Question.query.get(q)
QuestionsOf(qs, q) == {x \in qs : x.id = q}

\* Question(id, text) and Context(question_id, {}, {}, {}, {}), added in one commit.
\* The column `timestamp` takes its default at the insert: a value that grows
\* from one insert to the next.
NewQuestion(qid, text) == [id |-> qid, text |-> text]

NewContextOrphan(cid, qid) ==
    [id |-> cid, question_id |-> 0, timestamp |-> cid, responses |-> EmptyMap, critiques |-> EmptyMap,
     research |-> EmptyMap, conclusions |-> EmptyMap]

NewContext(cid, qid) ==
    [id |-> cid, question_id |-> qid, timestamp |-> cid, responses |-> EmptyMap, critiques |-> EmptyMap,
     research |-> EmptyMap, conclusions |-> EmptyMap]

\* db.session.delete(question): relationship(cascade="all, delete-orphan")
\* deletes the question's context in the same transaction.
DeleteNoCascade(ctxs, q) == ctxs

DeleteCascade(ctxs, q) == ctxs \ ContextsOf(ctxs, q)

\* The flush of a commit: an UPDATE of the columns the ORM found changed, on the
\* row with the loaded primary key. With nothing changed no statement is sent;
\* an UPDATE that matches no row raises (StaleDataError).
FlushUpsert(ctxs, row, changes) ==
    IF DOMAIN changes = {} THEN [ok |-> TRUE, contexts |-> ctxs]
    ELSE IF \E c \in ctxs : c.id = row.id
    THEN [ok |-> TRUE,
          contexts |-> { IF c.id = row.id
                         THEN [col \in DOMAIN c |->
                                 IF col \in DOMAIN changes THEN changes[col] ELSE c[col]]
                         ELSE c : c \in ctxs }]
    ELSE [ok |-> TRUE,
          contexts |-> ctxs \cup { [col \in DOMAIN row |->
                                      IF col \in DOMAIN changes THEN changes[col]
                                                                ELSE row[col]] }]

FlushEveryRow(ctxs, row, changes) ==
    IF DOMAIN changes = {} THEN [ok |-> TRUE, contexts |-> ctxs]
    ELSE IF \E c \in ctxs : c.id = row.id
    THEN [ok |-> TRUE,
          contexts |-> { [col \in DOMAIN c |->
                            IF col \in DOMAIN changes THEN changes[col] ELSE c[col]]
                         : c \in ctxs }]
    ELSE [ok |-> FALSE, contexts |-> ctxs]

FlushWholeRow(ctxs, row, changes) ==
    IF DOMAIN changes = {} THEN [ok |-> TRUE, contexts |-> ctxs]
    ELSE IF \E c \in ctxs : c.id = row.id
    THEN [ok |-> TRUE,
          contexts |-> { IF c.id = row.id
                         THEN [col \in DOMAIN c |->
                                 IF col \in DOMAIN changes THEN changes[col] ELSE row[col]]
                         ELSE c : c \in ctxs }]
    ELSE [ok |-> FALSE, contexts |-> ctxs]

Flush(ctxs, row, changes) ==
    IF DOMAIN changes = {} THEN [ok |-> TRUE, contexts |-> ctxs]
    ELSE IF \E c \in ctxs : c.id = row.id
    THEN [ok |-> TRUE,
          contexts |-> { IF c.id = row.id
                         THEN [col \in DOMAIN c |->
                                 IF col \in DOMAIN changes THEN changes[col] ELSE c[col]]
                         ELSE c : c \in ctxs }]
    ELSE [ok |-> FALSE, contexts |-> ctxs]

\* `m = context.<col> or {}; m[agent_id] = payload; context.<col> = m` and what
\* the ORM makes of it. The columns are plain db.JSON: a non-empty loaded dict is
\* mutated in place and assigned back, so the value the ORM remembers as loaded
\* is the very object it is given as new, and it finds no change. An empty
\* loaded dict is replaced by a new one (`or {}`), which differs from it.
SetEntry(row, col, agent_id, payload) ==
    LET loaded    == row[col]
        fresh     == loaded = EmptyMap
        current   == Put(loaded, agent_id, payload)
        committed == IF fresh THEN loaded ELSE current
    IN  IF current # committed THEN (col :> current) ELSE <<>>

\* `context.<col> = result[<col>]` for each stage map the result holds: the
\* columns whose new value differs from the loaded one.
SetColumnsWithError(row, res) ==
    IF "error" \in DOMAIN res
    THEN [col \in {"responses"} |-> [error |-> res.error]]
    ELSE LET dirty == {col \in Columns \cap DOMAIN res : res[col] # row[col]}
         IN  [col \in dirty |-> res[col]]

SetColumnsResponsesOnly(row, res) ==
    LET dirty == {col \in {"responses"} \cap DOMAIN res : res[col] # row[col]}
    IN  [col \in dirty |-> res[col]]

SetColumns(row, res) ==
    LET dirty == {col \in Columns \cap DOMAIN res : res[col] # row[col]}
    IN  [col \in dirty |-> res[col]]

\* Context.to_dict: the columns of the row, and the text of its question.
ToDict(c, qs) ==
    [question_id |-> c.question_id,
     timestamp |-> c.timestamp,
     question_text |-> (CHOOSE x \in QuestionsOf(qs, c.question_id) : TRUE).text,
     responses |-> c.responses, critiques |-> c.critiques,
     research |-> c.research, conclusions |-> c.conclusions]

-----------------------------------------------------------------------------
(* The request handlers. A handler's reply is a function of the database   *)
(* and the request; the handlers that only read change nothing.            *)

Reply(status, body) == [status |-> status, body |-> body]

NotFound == Reply(404, [error |-> "Question not found"])

\* The POST /submit bodies tried. NoBody is a request without JSON.
NoBody == <<>>

Submissions ==
    {[agent_id |-> "agent-gpt", stage |-> "response", payload |-> [content |-> "p1"]],
     [agent_id |-> "agent-ext", agent_name |-> "Ext", stage |-> "response",
      payload |-> [content |-> "p2"]]}
    \cup {[agent_id |-> "agent-ext", stage |-> "critique",
           payload |-> [target_agent |-> t, critique |-> "c"]] :
        t \in {"agent-gpt", "agent-claude"}}
    \cup {[agent_id |-> "agent-ext", stage |-> st, payload |-> [summary |-> "s"]] :
        st \in {"conclusion", "unknown"}}
    \cup {NoBody}

\* `stage == "response"` ... `else`: the column a stage is stored in.
StageColumnLenient(st) ==
    CASE st = "response"   -> "responses"
      [] st = "critique"   -> "critiques"
      [] st = "research"   -> "research"
      [] OTHER             -> "conclusions"

StageColumn(st) ==
    CASE st = "response"   -> "responses"
      [] st = "critique"   -> "critiques"
      [] st = "research"   -> "research"
      [] st = "conclusion" -> "conclusions"
      [] OTHER             -> "none"

\* `if agent_name: payload["agent_name"] = agent_name`
StoredPayload(sub) ==
    IF "agent_name" \in DOMAIN sub
    THEN Put(sub.payload, "agent_name", sub.agent_name)
    ELSE sub.payload

Idle == [pc |-> "idle"]

InitStore ==
    /\ env \in EnvChoices
    /\ questions = {}
    /\ contexts = {}
    /\ nextId = 1
    /\ handlers = [h \in Handlers |-> Idle]
    /\ runs = <<>>
    /\ nSubmits = 0
    /\ deleted = {}
    /\ api_keys = {}
    /\ roster = <<>>
    /\ result = EmptyResult
    /\ stage = "returned"
    /\ i = 0
    /\ j = 0
    /\ inflight = NoCall
    /\ started = {}
    /\ completed = {}
    /\ raised = {}
    /\ conclArg = EmptyMap
    /\ critArg = EmptyMap

\* POST /question
CreateQuestion ==
    /\ nextId < 2 * MaxQuestions
    /\ \E text \in Texts :
        LET qid == Uuid4(nextId)
            cid == Uuid4(nextId + 1)
        IN  /\ questions' = questions \cup {NewQuestion(qid, text)}
            /\ contexts' = contexts \cup {NewContext(cid, qid)}
    /\ nextId' = nextId + 2
    /\ UNCHANGED <<env, api_keys, handlers, runs, nSubmits, deleted, pvars>>

\* POST /submit/<q>, lines 66-80: the rejection sent before anything is
\* changed, or status 0 when the request goes on.
SubmitEarlyReply(ctxs, q, sub) ==
    IF ContextsOf(ctxs, q) = {} THEN NotFound
    ELSE IF sub = NoBody THEN Reply(400, [error |-> "Invalid submission data"])
    ELSE Reply(0, <<>>)

SubmitLoad(h, q, sub) ==
    /\ handlers[h].pc = "idle"
    /\ nSubmits < MaxSubmits
    /\ IF SubmitEarlyReply(contexts, q, sub).status # 0
       THEN UNCHANGED <<handlers, nSubmits>>
       ELSE /\ handlers' = [handlers EXCEPT ![h] =
                               [pc |-> "loaded", qid |-> q, sub |-> sub,
                                row |-> CHOOSE c \in ContextsOf(contexts, q) : TRUE]]
            /\ nSubmits' = nSubmits + 1
    /\ UNCHANGED <<env, api_keys, questions, contexts, nextId, runs, deleted, pvars>>

\* POST /submit/<q>, lines 84-113, for the request a handler holds: the reply
\* and the table after the commit.
SubmitOutcome(ctxs, hd) ==
    LET col == StageColumn(hd.sub.stage)
    IN  IF col = "none"
        THEN [reply |-> Reply(400, [error |-> "Invalid stage"]), contexts |-> ctxs]
        ELSE LET f == Flush(ctxs, hd.row,
                            SetEntry(hd.row, col, hd.sub.agent_id, StoredPayload(hd.sub)))
             IN  [reply |-> IF f.ok THEN Reply(200, [status |-> "success"])
                                    ELSE Reply(500, [error |-> "stale"]),
                  contexts |-> f.contexts]

SubmitCommit(h) ==
    /\ handlers[h].pc = "loaded"
    /\ contexts' = SubmitOutcome(contexts, handlers[h]).contexts
    /\ handlers' = [handlers EXCEPT ![h] = Idle]
    /\ UNCHANGED <<env, api_keys, questions, nextId, runs, nSubmits, deleted, pvars>>

\* GET /context/<q>
GetContextReplyLatest(qs, ctxs, q) ==
    IF ctxs = {} THEN NotFound
    ELSE LET c == CHOOSE x \in ctxs : \A y \in ctxs : y.id <= x.id
         IN  IF QuestionsOf(qs, c.question_id) = {} THEN Reply(500, [error |-> "no question"])
             ELSE Reply(200, ToDict(c, qs))

GetContextReply(qs, ctxs, q) ==
    IF ContextsOf(ctxs, q) = {} THEN NotFound
    ELSE IF QuestionsOf(qs, q) = {} THEN Reply(500, [error |-> "no question"])
    ELSE Reply(200, ToDict(CHOOSE c \in ContextsOf(ctxs, q) : TRUE, qs))

GetContext(q) ==
    /\ GetContextReply(questions, contexts, q).status \in {200, 404, 500}
    /\ UNCHANGED vars

\* DELETE /question/<q>
DeleteReply(qs, q) ==
    IF QuestionsOf(qs, q) = {} THEN NotFound ELSE Reply(200, [status |-> "success"])

DeleteQuestion(q) ==
    /\ IF DeleteReply(questions, q).status = 404
       THEN UNCHANGED <<questions, contexts, deleted>>
       ELSE /\ questions' = questions \ QuestionsOf(questions, q)
            /\ contexts' = DeleteCascade(contexts, q)
            /\ deleted' = deleted \cup {q}
    /\ UNCHANGED <<env, api_keys, nextId, handlers, runs, nSubmits, pvars>>

\* GET /api/real-agents/status/<q>: the progress derived from the stage maps.
ProgressFirstNonEmpty(c) ==
    IF c.responses # EmptyMap THEN [progress |-> 25, status |-> "responses_ready"]
    ELSE IF c.critiques # EmptyMap THEN [progress |-> 50, status |-> "critiques_ready"]
    ELSE IF c.research # EmptyMap THEN [progress |-> 75, status |-> "research_ready"]
    ELSE IF c.conclusions # EmptyMap THEN [progress |-> 100, status |-> "complete"]
    ELSE [progress |-> 0, status |-> "pending"]

\* Four tests in a row, each overriding what the one before set.
Progress(c) ==
    LET s0 == [progress |-> 0, status |-> "pending"]
        s1 == IF c.responses # EmptyMap
              THEN [progress |-> 25, status |-> "responses_ready"] ELSE s0
        s2 == IF c.critiques # EmptyMap
              THEN [progress |-> 50, status |-> "critiques_ready"] ELSE s1
        s3 == IF c.research # EmptyMap
              THEN [progress |-> 75, status |-> "research_ready"] ELSE s2
        s4 == IF c.conclusions # EmptyMap
              THEN [progress |-> 100, status |-> "complete"] ELSE s3
    IN  s4

CheckStatusReply(qs, ctxs, q) ==
    IF QuestionsOf(qs, q) = {} THEN NotFound
    ELSE IF ContextsOf(ctxs, q) = {} THEN Reply(404, [error |-> "Context not found"])
    ELSE Reply(200, Progress(CHOOSE c \in ContextsOf(ctxs, q) : TRUE))

CheckProcessingStatus(q) ==
    /\ CheckStatusReply(questions, contexts, q).status \in {200, 404}
    /\ UNCHANGED vars

\* POST /api/real-agents/run: question and context are committed, then the
\* thread is started and the "processing" acknowledgment sent.
RunRealAgents ==
    /\ nextId < 2 * MaxQuestions
    /\ \E text \in Texts, use_real_agents \in BOOLEAN :
        LET qid == Uuid4(nextId)
            cid == Uuid4(nextId + 1)
        IN  /\ questions' = questions \cup {NewQuestion(qid, text)}
            /\ contexts' = contexts \cup {NewContext(cid, qid)}
            /\ runs' = Put(runs, qid, [pc |-> "started", use_real_agents |-> use_real_agents])
    /\ nextId' = nextId + 2
    /\ UNCHANGED <<env, api_keys, handlers, nSubmits, deleted, pvars>>

-----------------------------------------------------------------------------
(* process_in_thread                                                       *)

\* The roster of the AgentManager a run constructs.
RunRoster(r) == InitializeAgents(r.use_real_agents, env)

\* A thread that stored after the first stage would hold this.
LoadedAfterResponses(r, res, ctxs, q) ==
    IF ContextsOf(ctxs, q) = {}
    THEN [pc |-> "finished", use_real_agents |-> r.use_real_agents]
    ELSE [pc |-> "loaded", use_real_agents |-> r.use_real_agents,
          result |-> [col \in {"responses"} \cap DOMAIN res |-> res[col]],
          row |-> CHOOSE c \in ContextsOf(ctxs, q) : TRUE]

\* What a thread does after the result is there (lines 113-117):
\* Context.query.filter_by(question_id=q).first(); `if not context: return`
Loaded(r, res, ctxs, q) ==
    IF ContextsOf(ctxs, q) = {}
    THEN [pc |-> "finished", use_real_agents |-> r.use_real_agents]
    ELSE [pc |-> "loaded", use_real_agents |-> r.use_real_agents, result |-> res,
          row |-> CHOOSE c \in ContextsOf(ctxs, q) : TRUE]

\* loop.run_until_complete(process_question_with_agents(...)) returns the
\* result of process_question, and the thread queries the context. The
\* pipeline touches nothing shared, so it is one step with the query.
RunPipeline(q) ==
    /\ q \in DOMAIN runs
    /\ runs[q].pc = "started"
    /\ \E fails \in FailurePatterns(RunRoster(runs[q])) :
        runs' = [runs EXCEPT ![q] =
                    Loaded(runs[q], ProcessQuestion(RunRoster(runs[q]), fails), contexts, q)]
    /\ UNCHANGED <<env, api_keys, questions, contexts, nextId, handlers, nSubmits, deleted, pvars>>

\* ... or it returns the error record of its except branch.
RunPipelineError(q) ==
    /\ q \in DOMAIN runs
    /\ runs[q].pc = "started"
    /\ runs' = [runs EXCEPT ![q] = Loaded(runs[q], ErrorResult, contexts, q)]
    /\ UNCHANGED <<env, api_keys, questions, contexts, nextId, handlers, nSubmits, deleted, pvars>>

\* The four assignments and db.session.commit(); a failing commit ends in the
\* except branch, which only logs.
RunCommit(q) ==
    /\ q \in DOMAIN runs
    /\ runs[q].pc = "loaded"
    /\ contexts' = Flush(contexts, runs[q].row,
                         SetColumns(runs[q].row, runs[q].result)).contexts
    /\ runs' = [runs EXCEPT ![q] =
                  [pc |-> "finished", use_real_agents |-> runs[q].use_real_agents]]
    /\ UNCHANGED <<env, api_keys, questions, nextId, handlers, nSubmits, deleted, pvars>>

\* The service with its request threads and background threads.
NextStore ==
    \/ CreateQuestion
    \/ \E h \in Handlers, q \in RequestIds, sub \in Submissions : SubmitLoad(h, q, sub)
    \/ \E h \in Handlers : SubmitCommit(h)
    \/ \E q \in RequestIds : GetContext(q)
    \/ \E q \in RequestIds : DeleteQuestion(q)
    \/ \E q \in RequestIds : CheckProcessingStatus(q)
    \/ RunRealAgents
    \/ \E q \in RequestIds : RunPipeline(q)
    \/ \E q \in RequestIds : RunPipelineError(q)
    \/ \E q \in RequestIds : RunCommit(q)

Spec == InitStore /\ [][NextStore]_vars

-----------------------------------------------------------------------------
(* Properties of the service                                               *)

QuestionIds == {x.id : x \in questions}

\* The stored context of question q (there is one when q exists).
ContextOf(ctxs, q) == CHOOSE c \in ContextsOf(ctxs, q) : TRUE

\* C9: in every reachable state a context exists for a question id if and only
\* if the question with that id exists, and each question has exactly one.
C9_ContextIffQuestion ==
    /\ \A c \in contexts : c.question_id \in QuestionIds
    /\ \A q \in QuestionIds : Cardinality(ContextsOf(contexts, q)) = 1
    /\ Cardinality(questions) = Cardinality(QuestionIds)

C9_Witness ==
    /\ deleted # {}
    /\ questions # {}
    /\ \E q \in DOMAIN runs : runs[q].pc = "finished" /\ q \in QuestionIds
                              /\ ContextOf(contexts, q).responses # EmptyMap
    /\ \E h \in Handlers : handlers[h].pc = "loaded" /\ handlers[h].qid \in deleted

\* C10: once DELETE of Q has succeeded, a fetch of Q's context, a direct
\* submission to Q, a status poll of Q and another DELETE of Q are all answered
\* 404, in every later state: nothing makes Q's context readable again.
C10_DeletedStaysGone ==
    \A q \in deleted :
        /\ GetContextReply(questions, contexts, q).status = 404
        /\ CheckStatusReply(questions, contexts, q).status = 404
        /\ DeleteReply(questions, q).status = 404
        /\ \A sub \in Submissions : SubmitEarlyReply(contexts, q, sub).status = 404

C10_Witness ==
    /\ deleted # {}
    /\ nextId > 3
    /\ \E q \in deleted : q \in DOMAIN runs /\ runs[q].pc = "finished"
    /\ \E q \in QuestionIds : q \notin deleted

\* The step in which handler h commits and answers 200.
Accepted(h) ==
    /\ handlers[h].pc = "loaded"
    /\ handlers'[h].pc = "idle"
    /\ SubmitOutcome(contexts, handlers[h]).reply.status = 200

\* h is served alone: nothing was committed to the table between its query and
\* its commit, and its question exists.
ServedAlone(h) ==
    /\ handlers[h].row \in contexts
    /\ handlers[h].qid \in QuestionIds
    /\ \A g \in Handlers \ {h} : handlers[g].pc = "idle"

\* C4: write-then-read. After a direct submission of stage "response" with
\* agent id a and payload p has been answered 200, the fetch that follows shows
\* exactly p (with agent_name when one was supplied) under responses[a]; also
\* for the second and later submissions to the stage.
C4_WriteThenRead ==
    [][\A h \in Handlers :
          (Accepted(h) /\ ServedAlone(h) /\ handlers[h].sub.stage = "response") =>
              LET r == GetContextReply(questions', contexts', handlers[h].qid)
                  a == handlers[h].sub.agent_id
              IN  /\ r.status = 200
                  /\ a \in DOMAIN r.body.responses
                  /\ r.body.responses[a] = StoredPayload(handlers[h].sub)]_vars

\* C5: direct submissions key critiques two levels deep. After agent A's
\* critique with target_agent B has been answered 200, the stored context holds
\* it under critiques[A][B], and every critiques[A][C] held before, C # B, is
\* still there.
C5_CritiqueTwoLevels ==
    [][\A h \in Handlers :
          (Accepted(h) /\ ServedAlone(h) /\ handlers[h].sub.stage = "critique") =>
              LET before == ContextOf(contexts, handlers[h].qid).critiques
                  after  == ContextOf(contexts', handlers[h].qid).critiques
                  a      == handlers[h].sub.agent_id
                  b      == handlers[h].sub.payload.target_agent
              IN  /\ a \in DOMAIN after
                  /\ b \in DOMAIN after[a]
                  /\ after[a][b] = StoredPayload(handlers[h].sub)
                  /\ a \in DOMAIN before =>
                        \A c \in DOMAIN before[a] \ {b} :
                            c \in DOMAIN after[a] /\ after[a][c] = before[a][c]]_vars

\* C7: when the background run of a triggered question stores its results, it
\* changes only the entries of its own roster agents: every entry another agent
\* id holds in the context, in any stage map, is still there afterwards.
C7_RunKeepsOtherEntries ==
    [][\A q \in DOMAIN runs :
          (runs[q].pc = "loaded" /\ runs'[q].pc = "finished" /\ q \in QuestionIds) =>
              LET ros    == RunRoster(runs[q])
                  own    == {ros[k] : k \in 1..Len(ros)}
                  before == ContextOf(contexts, q)
                  after  == ContextOf(contexts', q)
              IN  \A col \in Columns :
                      \A a \in DOMAIN before[col] \ own :
                          a \in DOMAIN after[col] /\ after[col][a] = before[col][a]]_vars

\* C8: two direct submissions to the same stage of the same question from two
\* agent ids, handled by two handlers whose load-set-commit sequences overlap:
\* when the later commit has been answered 200, the stored stage map holds both
\* entries.
C8_ConcurrentSubmissions ==
    [][\A h \in Handlers :
          LET q      == handlers[h].qid
              a      == handlers[h].sub.agent_id
              col    == StageColumn(handlers[h].sub.stage)
              before == ContextOf(contexts, q)[col]
              after  == ContextOf(contexts', q)[col]
              others == DOMAIN before \ (DOMAIN handlers[h].row[col] \cup {a})
          IN  (/\ Accepted(h)
               /\ q \in QuestionIds
               /\ q \notin DOMAIN runs
               /\ others # {}) =>
                  /\ a \in DOMAIN after
                  /\ after[a] = StoredPayload(handlers[h].sub)
                  /\ \A o \in others : o \in DOMAIN after /\ after[o] = before[o]]_vars

\* The stage maps of every stored context.
StageMaps(ctxs) ==
    {[question_id |-> c.question_id, responses |-> c.responses, critiques |-> c.critiques,
      research |-> c.research, conclusions |-> c.conclusions] : c \in ctxs}

\* C11: a direct submission to an unknown question id is answered 404, one
\* without a JSON body 400, and one whose stage is none of response, critique,
\* research, conclusion 400; the request that is rejected leaves the four stage
\* maps of every stored context as they were.
C11_RejectedNoEffect ==
    /\ [](\A q \in RequestIds, sub \in Submissions :
            /\ ContextsOf(contexts, q) = {} =>
                  SubmitEarlyReply(contexts, q, sub).status = 404
            /\ (ContextsOf(contexts, q) # {} /\ sub = NoBody) =>
                  SubmitEarlyReply(contexts, q, sub).status = 400)
    /\ [][\A h \in Handlers :
            (/\ handlers[h].pc = "loaded"
             /\ handlers'[h].pc = "idle"
             /\ \/ handlers[h].sub.stage \notin Stages
                \/ SubmitOutcome(contexts, handlers[h]).reply.status = 400) =>
                /\ SubmitOutcome(contexts, handlers[h]).reply.status = 400
                /\ StageMaps(contexts') = StageMaps(contexts)]_vars

C11_Witness ==
    \E h \in Handlers :
        /\ handlers[h].pc = "loaded"
        /\ handlers[h].sub.stage \notin Stages
        /\ handlers[h].qid \in QuestionIds
        /\ ContextOf(contexts, handlers[h].qid).responses # EmptyMap
        /\ ContextsOf(contexts, 0) = {}

\* C12: direct submissions are last-write-wins per (stage, agent id). When a
\* submission for a stage and agent id that already hold an entry has been
\* answered 200, the stored entry under that key is the new payload alone, and
\* every entry under another agent id or in another stage is as it was.
C12_LastWriteWins ==
    [][\A h \in Handlers :
          LET q      == handlers[h].qid
              a      == handlers[h].sub.agent_id
              col    == StageColumn(handlers[h].sub.stage)
              before == ContextOf(contexts, q)
              after  == ContextOf(contexts', q)
          IN  (Accepted(h) /\ ServedAlone(h) /\ a \in DOMAIN before[col]) =>
                  /\ a \in DOMAIN after[col]
                  /\ after[col][a] = StoredPayload(handlers[h].sub)
                  /\ DOMAIN after[col] = DOMAIN before[col]
                  /\ \A o \in DOMAIN before[col] \ {a} : after[col][o] = before[col][o]
                  /\ \A c \in Columns \ {col} : after[c] = before[c]]_vars

\* The progress a status poll of q reports in the tables given.
PolledProgress(qs, ctxs, q) == CheckStatusReply(qs, ctxs, q).body.progress

\* C13: progress monotonicity. For a triggered question that is not deleted,
\* no step of the service (a commit of the background run, of a direct
\* submission, or anything else) lowers the progress a status poll reports, and
\* the value is one of 0, 25, 50, 75, 100: the polls of a run see a
\* non-decreasing sequence.
C13_ProgressMonotone ==
    [][\A q \in DOMAIN runs :
          (q \in QuestionIds /\ q \in {x.id : x \in questions'}) =>
              /\ CheckStatusReply(questions, contexts, q).status = 200
              /\ CheckStatusReply(questions', contexts', q).status = 200
              /\ PolledProgress(questions, contexts, q) \in {0, 25, 50, 75, 100}
              /\ PolledProgress(questions', contexts', q) \in {0, 25, 50, 75, 100}
              /\ PolledProgress(questions', contexts', q)
                    >= PolledProgress(questions, contexts, q)]_vars

C13_Witness ==
    \E q \in DOMAIN runs :
        /\ runs[q].pc = "finished"
        /\ q \in QuestionIds
        /\ PolledProgress(questions, contexts, q) = 100
        /\ "agent-ext" \in DOMAIN ContextOf(contexts, q).responses
        /\ "agent-gpt" \notin DOMAIN ContextOf(contexts, q).responses

\* C14: the status poll of an existing question reports progress 0 when the
\* four stage maps are empty and otherwise 25, 50, 75 or 100 by the last
\* non-empty map in the order responses, critiques, research, conclusions,
\* whatever the maps before it hold; conclusions non-empty gives 100, "complete".
C14_ProgressByLastStage ==
    LET order  == <<"responses", "critiques", "research", "conclusions">>
        names  == <<"responses_ready", "critiques_ready", "research_ready", "complete">>
        last(c) ==
            LET filled == {k \in 1..Len(order) : c[order[k]] # EmptyMap}
            IN  IF filled = {} THEN 0 ELSE CHOOSE k \in filled : \A m \in filled : m <= k
    IN  \A q \in QuestionIds :
            LET c == ContextOf(contexts, q)
                r == CheckStatusReply(questions, contexts, q)
                k == last(c)
            IN  /\ r.status = 200
                /\ r.body.progress = 25 * k
                /\ r.body.status = IF k = 0 THEN "pending" ELSE names[k]
                /\ c.conclusions # EmptyMap =>
                      r.body.progress = 100 /\ r.body.status = "complete"

C14_Witness ==
    /\ \E q \in QuestionIds :
          LET c == ContextOf(contexts, q)
          IN  /\ c.conclusions # EmptyMap
              /\ c.responses = EmptyMap /\ c.critiques = EmptyMap /\ c.research = EmptyMap
              /\ CheckStatusReply(questions, contexts, q).body.progress = 100
    /\ \E q \in QuestionIds :
          LET c == ContextOf(contexts, q)
          IN  /\ c.responses # EmptyMap /\ c.conclusions # EmptyMap
              /\ c.critiques = EmptyMap

\* C15: the trigger commits the question and its context, with four empty
\* stage maps, and starts the background run without waiting for an agent call;
\* from then on a fetch and a status poll of the question are answered 200
\* unless the question was deleted, and a run stores its result only in the
\* context of an existing question.
C15_TriggerCommitsFirst ==
    /\ [](\A q \in DOMAIN runs :
            q \notin deleted =>
                /\ GetContextReply(questions, contexts, q).status = 200
                /\ CheckStatusReply(questions, contexts, q).status = 200)
    /\ [][/\ \A q \in DOMAIN runs' \ DOMAIN runs :
                /\ q \notin QuestionIds
                /\ GetContextReply(questions', contexts', q).status = 200
                /\ \A col \in Columns :
                      GetContextReply(questions', contexts', q).body[col] = EmptyMap
                /\ PolledProgress(questions', contexts', q) = 0
                /\ runs'[q].pc = "started"
          /\ \A q \in DOMAIN runs :
                (runs[q].pc = "loaded" /\ runs'[q].pc = "finished"
                    /\ contexts' # contexts) => q \in QuestionIds]_vars

C15_Witness ==
    /\ \E q \in DOMAIN runs :
          /\ runs[q].pc = "finished"
          /\ q \in QuestionIds
          /\ PolledProgress(questions, contexts, q) = 100
    /\ \E q \in DOMAIN runs : q \in deleted

-----------------------------------------------------------------------------
(* process_question_with_agents                                            *)

\* The record returned when get_available_agents() is empty (the "question"
\* entry left out, as in `result`).
NoAgentsResult == [error |-> "No agents available", question |-> "question"]

\* The rosters the runner is taken through: those the constructor builds, and
\* the empty one, for an AgentManager whose `agents` dict holds nothing.
RunnerRosters == Rosters \cup {<<>>}

InitRunner ==
    /\ roster \in RunnerRosters
    /\ result = EmptyMap
    /\ stage = "entered"
    /\ i = 0
    /\ j = 0
    /\ inflight = NoCall
    /\ started = {}
    /\ completed = {}
    /\ raised = {}
    /\ conclArg = EmptyMap
    /\ critArg = EmptyMap
    /\ env = {}
    /\ questions = {}
    /\ contexts = {}
    /\ nextId = 1
    /\ handlers = <<>>
    /\ runs = <<>>
    /\ nSubmits = 0
    /\ deleted = {}
    /\ api_keys = {}

\* `if not available_agents: return {"error": "No agents available", ...}`
RunnerNoAgents ==
    /\ stage = "entered"
    /\ roster = <<>>
    /\ result' = NoAgentsResult
    /\ stage' = "returned"
    /\ UNCHANGED <<roster, i, j, inflight, started, completed, raised, conclArg, critArg, svars>>

\* `result = await agent_manager.process_question(question)` is entered.
RunnerProcess ==
    /\ stage = "entered"
    /\ roster # <<>>
    /\ result' = EmptyResult
    /\ LET p == Seek("response", 1, 1, roster, <<>>)
       IN  stage' = p.stage /\ i' = p.i /\ j' = p.j
    /\ UNCHANGED <<roster, inflight, started, completed, raised, conclArg, critArg, svars>>

NextRunner ==
    RunnerNoAgents \/ RunnerProcess \/ CallStart \/ CallReturn \/ CallRaise \/ PipelineReturn

SpecRunner == InitRunner /\ [][NextRunner]_vars

-----------------------------------------------------------------------------
(* End to end: one trigger, the pipeline call by call, the thread's commit *)

\* The environments the service is started in here: with use_real_agents they
\* give a roster of one and a roster of two, without it the three mock agents.
EndToEndEnvs == {{"OPENAI_API_KEY"}, {"OPENAI_API_KEY", "PERPLEXITY_API_KEY"}}

InitEndToEnd ==
    /\ env \in EndToEndEnvs
    /\ questions = {}
    /\ contexts = {}
    /\ nextId = 1
    /\ handlers = [h \in Handlers |-> Idle]
    /\ runs = <<>>
    /\ nSubmits = 0
    /\ deleted = {}
    /\ api_keys = {}
    /\ roster = <<>>
    /\ result = EmptyResult
    /\ stage = "returned"
    /\ i = 0
    /\ j = 0
    /\ inflight = NoCall
    /\ started = {}
    /\ completed = {}
    /\ raised = {}
    /\ conclArg = EmptyMap
    /\ critArg = EmptyMap

\* POST /api/real-agents/run, once.
TriggerOnce ==
    /\ nextId = 1
    /\ RunRealAgents

\* The thread constructs the AgentManager and enters process_question.
ThreadStart(q) ==
    /\ q \in DOMAIN runs
    /\ runs[q].pc = "started"
    /\ roster' = RunRoster(runs[q])
    /\ result' = EmptyResult
    /\ LET p == Seek("response", 1, 1, roster', <<>>)
       IN  stage' = p.stage /\ i' = p.i /\ j' = p.j
    /\ runs' = [runs EXCEPT ![q].pc = "running"]
    /\ UNCHANGED <<inflight, started, completed, raised, conclArg, critArg,
                   env, api_keys, questions, contexts, nextId, handlers, nSubmits, deleted>>

\* process_question has returned: the thread queries the context.
ThreadLoad(q) ==
    /\ q \in DOMAIN runs
    /\ runs[q].pc = "running"
    /\ stage = "returned"
    /\ runs' = [runs EXCEPT ![q] = Loaded(runs[q], result, contexts, q)]
    /\ UNCHANGED <<env, api_keys, questions, contexts, nextId, handlers, nSubmits, deleted, pvars>>

NextEndToEnd ==
    \/ TriggerOnce
    \/ \E q \in RequestIds : ThreadStart(q)
    \/ CallStart
    \/ CallReturn
    \/ CallRaise
    \/ PipelineReturn
    \/ \E q \in RequestIds : ThreadLoad(q)
    \/ \E q \in RequestIds : RunCommit(q)

SpecEndToEnd == InitEndToEnd /\ [][NextEndToEnd]_vars

\* C17: end to end. When process_question has returned for roster R, whatever
\* calls raised, responses, research and conclusions are keyed by exactly the
\* agents of R and critiques by R when R has two agents or more, 3, 6, 3 and 3
\* entries for a roster of three; and the context fetched after the background
\* run has committed holds the same.
C17_EndToEnd ==
    LET CompleteFor(m, R) ==
            /\ DOMAIN m.responses = R
            /\ DOMAIN m.research = R
            /\ DOMAIN m.conclusions = R
            /\ Cardinality(R) >= 2 => DOMAIN m.critiques = R
            /\ Cardinality(R) = 3 =>
                  /\ Cardinality(DOMAIN m.responses) = 3
                  /\ Cardinality(Entries2(m.critiques)) = 6
                  /\ Cardinality(DOMAIN m.research) = 3
                  /\ Cardinality(DOMAIN m.conclusions) = 3
    IN  /\ (stage = "returned" /\ roster # <<>>) => CompleteFor(result, RosterSet)
        /\ \A q \in DOMAIN runs :
              runs[q].pc = "finished" =>
                  /\ GetContextReply(questions, contexts, q).status = 200
                  /\ CompleteFor(GetContextReply(questions, contexts, q).body, RosterSet)
                  /\ \A col \in Columns :
                        GetContextReply(questions, contexts, q).body[col] = result[col]

C17_Witness ==
    /\ \E q \in DOMAIN runs : runs[q].pc = "finished"
    /\ Len(roster) = 3
    /\ \E c \in raised : c[1] = "response"
    /\ \E c \in raised : c[1] = "conclusion"
    /\ \E q \in QuestionIds :
          Cardinality(Entries2(GetContextReply(questions, contexts, q).body.critiques)) = 6

-----------------------------------------------------------------------------
(* The shapes of the stored payloads                                       *)

\* C18: every payload a pipeline run stores, placeholders included, has the
\* record shape of its stage: a response has content, confidence and
\* reasoning; a critique target_agent, critique, agreement_level and
\* key_points; research findings, confidence and at most 3 sources; a
\* conclusion summary, confidence, a final_position among supportive,
\* cautious, critical, neutral, optimistic and 3 to 5 key_takeaways.
C18_PayloadShapes ==
    /\ \A a \in DOMAIN result.responses :
          {"content", "confidence", "reasoning"} \subseteq DOMAIN result.responses[a]
    /\ \A a \in DOMAIN result.critiques :
          \A b \in DOMAIN result.critiques[a] :
              {"target_agent", "critique", "agreement_level", "key_points"}
                  \subseteq DOMAIN result.critiques[a][b]
    /\ \A a \in DOMAIN result.research :
          /\ {"findings", "confidence", "sources"} \subseteq DOMAIN result.research[a]
          /\ Len(result.research[a].sources) <= 3
    /\ \A a \in DOMAIN result.conclusions :
          /\ {"summary", "confidence", "final_position", "key_takeaways"}
                \subseteq DOMAIN result.conclusions[a]
          /\ result.conclusions[a].final_position \in
                {"supportive", "cautious", "critical", "neutral", "optimistic"}
          /\ Len(result.conclusions[a].key_takeaways) \in 3..5

-----------------------------------------------------------------------------
(* Reads                                                                   *)

-----------------------------------------------------------------------------
(* The provider-backed agents: GPTAgent and GrokAgent                      *)

\* The rosters made of provider-backed agents whose code is at hand.
ProviderRosters ==
    { InitializeAgents(TRUE, environ) :
        environ \in (SUBSET {"OPENAI_API_KEY", "PERPLEXITY_API_KEY"}) \ {{}} }

\* self.model
ProviderModel(a) ==
    IF a = "agent-gpt" THEN "gpt-4o" ELSE "llama-3.1-sonar-small-128k-online"

\* generate_response: the try branch when the remote call answered, the except
\* branch when it raised.
ProviderResponse(a, remote) ==
    IF remote = "ok"
    THEN [content |-> "answer of " \o a, confidence |-> 60,
          reasoning |-> "Analysis", model |-> ProviderModel(a), agent_name |-> AgentName(a)]
    ELSE [content |-> "I apologize, but I encountered an error while processing your question.",
          confidence |-> 0, reasoning |-> "Error: " \o ErrorText,
          model |-> ProviderModel(a), agent_name |-> AgentName(a)]

\* generate_critique
ProviderCritique(a, b, remote) ==
    IF remote = "ok"
    THEN [target_agent |-> b, critique |-> "critique by " \o a, agreement_level |-> 70,
          key_points |-> <<"point1", "point2", "point3">>,
          model |-> ProviderModel(a), agent_name |-> AgentName(a)]
    ELSE [target_agent |-> b,
          critique |-> "I encountered an error while analyzing this response.",
          agreement_level |-> 50, key_points |-> <<"Error: " \o ErrorText>>,
          model |-> ProviderModel(a), agent_name |-> AgentName(a)]

\* generate_research
ProviderResearch(a, remote) ==
    IF remote = "ok"
    THEN [findings |-> "findings of " \o a,
          sources |-> <<[title |-> "Journal of Applied Research", year |-> 2023,
                         relevance |-> 91]>>,
          confidence |-> 85, model |-> ProviderModel(a), agent_name |-> AgentName(a)]
    ELSE [findings |-> "I encountered an error while conducting research on this question.",
          sources |-> <<>>, confidence |-> 0,
          model |-> ProviderModel(a), agent_name |-> AgentName(a)]

\* generate_conclusion
ProviderConclusion(a, remote) ==
    IF remote = "ok"
    THEN [summary |-> "conclusion of " \o a,
          key_takeaways |-> <<"Important insight from multiple sources",
                              "Consideration of alternative viewpoints",
                              "Synthesis of research findings">>,
          confidence |-> 90, final_position |-> "neutral",
          model |-> ProviderModel(a), agent_name |-> AgentName(a)]
    ELSE [summary |-> "I encountered an error while forming a conclusion on this question.",
          key_takeaways |-> <<"Error: " \o ErrorText>>, confidence |-> 0,
          final_position |-> "neutral",
          model |-> ProviderModel(a), agent_name |-> AgentName(a)]

\* The try branches of process_question with what a provider-backed agent returned.
StoreProvider(res, call, remote) ==
    LET a == call[2]
        b == call[3]
    IN  CASE call[1] = "response" ->
               [res EXCEPT !.responses = Put(@, a, ProviderResponse(a, remote))]
          [] call[1] = "critique" ->
               [res EXCEPT !.critiques = PutCritique(@, a, b, ProviderCritique(a, b, remote))]
          [] call[1] = "research" ->
               [res EXCEPT !.research = Put(@, a, ProviderResearch(a, remote))]
          [] call[1] = "conclusion" ->
               [res EXCEPT !.conclusions = Put(@, a, ProviderConclusion(a, remote))]

InitProvider ==
    /\ roster \in ProviderRosters
    /\ result = EmptyResult
    /\ LET p == Seek("response", 1, 1, roster, <<>>)
       IN  stage = p.stage /\ i = p.i /\ j = p.j
    /\ inflight = NoCall
    /\ started = {}
    /\ completed = {}
    /\ raised = {}
    /\ conclArg = EmptyMap
    /\ critArg = EmptyMap
    /\ env = {}
    /\ questions = {}
    /\ contexts = {}
    /\ nextId = 1
    /\ handlers = <<>>
    /\ runs = <<>>
    /\ nSubmits = 0
    /\ deleted = {}
    /\ api_keys = {}

\* Inside the agent's method the remote call raises: the method is in its
\* except branch (the call in flight carries the mark "raised").
RemoteRaise ==
    /\ inflight # NoCall
    /\ Len(inflight) = 3
    /\ inflight' = Append(inflight, "raised")
    /\ UNCHANGED <<roster, result, stage, i, j, started, completed, raised, conclArg, critArg, svars>>

\* The agent's method returns, from its try or from its except branch, and
\* process_question stores what it returned.
ProviderReturn ==
    /\ inflight # NoCall
    /\ LET call   == SubSeq(inflight, 1, 3)
           remote == IF Len(inflight) = 4 THEN "raised" ELSE "ok"
       IN  /\ result' = StoreProvider(result, call, remote)
           /\ completed' = completed \cup {call}
    /\ inflight' = NoCall
    /\ LET p == After(stage, i, j, roster, ResponseKeys(result', roster))
       IN  stage' = p.stage /\ i' = p.i /\ j' = p.j
    /\ UNCHANGED <<roster, started, raised, conclArg, critArg, svars>>

NextProvider == CallStart \/ RemoteRaise \/ ProviderReturn \/ PipelineReturn

SpecProvider == InitProvider /\ [][NextProvider]_vars

\* C20: when the remote call of a provider-backed agent's operation raises,
\* the operation returns a payload whose content (respond), findings (research)
\* or summary (conclude) is the error message and whose confidence is 0.0, and
\* the pipeline's except branch is not taken.
C20_FailureAsPayload ==
    [][(inflight # NoCall /\ Len(inflight) = 4 /\ inflight' = NoCall) =>
          LET a   == inflight[2]
              msg == {ErrorText, "Error: " \o ErrorText}
          IN  /\ raised' = {}
              /\ inflight[1] = "response" =>
                    /\ result'.responses[a].content \in msg
                    /\ result'.responses[a].confidence = 0
              /\ inflight[1] = "research" =>
                    /\ result'.research[a].findings \in msg
                    /\ result'.research[a].confidence = 0
              /\ inflight[1] = "conclusion" =>
                    /\ result'.conclusions[a].summary \in msg
                    /\ result'.conclusions[a].confidence = 0]_vars

-----------------------------------------------------------------------------
(* Termination of process_question                                         *)

\* process_question under the scheduling the code gives it: the coroutine goes
\* on to its next statement (the next call is made, the result is returned),
\* and every awaited call eventually returns or raises.
SpecPipelineFair ==
    /\ InitPipeline
    /\ [][NextPipeline]_vars
    /\ WF_vars(CallStart)
    /\ WF_vars(CallReturn \/ CallRaise)
    /\ WF_vars(PipelineReturn)

\* C21: termination. Every run reaches the state after CONCLUSION and returns;
\* it has then made every call of every stage (N respond, N*(N-1) critique,
\* N research, N conclude calls), each has completed, and no call is ever
\* started a second time, whatever calls raise.
C21_Termination ==
    /\ <>(stage = "returned")
    /\ [](stage = "returned" =>
            /\ started = UNION {ExpectedCalls(s) : s \in Stages}
            /\ completed = started
            /\ \A s \in Stages :
                  Cardinality({c \in started : c[1] = s})
                      = IF s = "critique" THEN Len(roster) * (Len(roster) - 1)
                                          ELSE Len(roster))
    /\ [][(inflight = NoCall /\ inflight' # NoCall) => inflight' \notin started]_vars

C21_Witness ==
    /\ stage = "returned"
    /\ Len(roster) = 3
    /\ Cardinality(started) = 15
    /\ Cardinality(raised) >= 2
    /\ completed = started

-----------------------------------------------------------------------------
(* Concurrent background runs                                              *)

\* A step of the background run of q: the pipeline's return with the context
\* query, or the commit.
RunStep(q) ==
    /\ q \in DOMAIN runs
    /\ q \in DOMAIN runs'
    /\ runs'[q] # runs[q]

\* C22: cross-question independence. No step of the background run of a
\* question changes the question row or the context row (its four stage maps)
\* of another question, in any interleaving of two runs.
C22_CrossQuestionIndependence ==
    [][\A q \in DOMAIN runs :
          RunStep(q) =>
              \A other \in RequestIds \ {q} :
                  /\ QuestionsOf(questions', other) = QuestionsOf(questions, other)
                  /\ ContextsOf(contexts', other) = ContextsOf(contexts, other)]_vars

C22_Witness ==
    \E q1 \in DOMAIN runs, q2 \in DOMAIN runs :
        /\ q1 # q2
        /\ runs[q1].pc = "finished"
        /\ runs[q2].pc = "loaded"
        /\ q1 \in QuestionIds /\ q2 \in QuestionIds
        /\ ContextOf(contexts, q1).conclusions # EmptyMap
        /\ ContextOf(contexts, q2).conclusions = EmptyMap

-----------------------------------------------------------------------------
(* The critique stage                                                      *)

\* C23: the response handed to A's critique of B is the value stored under
\* responses[B], the pipeline's placeholder when B's respond call raised; an
\* agent whose respond call raised is still critiqued by every other agent; and
\* critiques[A][B] holds what the call returned, or, when it raised, the
\* placeholder with target_agent B and agreement_level 0.5.
C23_CritiqueInputs ==
    /\ \A p \in DOMAIN critArg :
          /\ p[1] # p[2]
          /\ p[2] \in DOMAIN result.responses
          /\ critArg[p] = result.responses[p[2]]
          /\ <<"response", p[2], "-">> \in raised => critArg[p] = ResponsePlaceholder(p[2])
          /\ <<"response", p[2], "-">> \notin raised => critArg[p] = AgentResponse(p[2])
    /\ StageRank(stage) > 2 =>
          \A b \in RosterSet : \A a \in RosterSet \ {b} : <<a, b>> \in DOMAIN critArg
    /\ \A c \in completed :
          c[1] = "critique" =>
              /\ c[2] \in DOMAIN result.critiques
              /\ c[3] \in DOMAIN result.critiques[c[2]]
              /\ IF c \in raised
                 THEN /\ result.critiques[c[2]][c[3]] = CritiquePlaceholder(c[2], c[3])
                      /\ result.critiques[c[2]][c[3]].target_agent = c[3]
                      /\ result.critiques[c[2]][c[3]].agreement_level = 50
                 ELSE result.critiques[c[2]][c[3]]
                          = AgentCritique(c[2], c[3], critArg[<<c[2], c[3]>>])

C23_Witness ==
    /\ stage = "research"
    /\ Len(roster) = 3
    /\ \E b \in RosterSet :
          /\ <<"response", b, "-">> \in raised
          /\ \E a \in RosterSet \ {b} :
                /\ <<"critique", a, b>> \in raised
                /\ critArg[<<a, b>>] = ResponsePlaceholder(b)
          /\ \E a \in RosterSet \ {b} : <<"critique", a, b>> \in completed \ raised

-----------------------------------------------------------------------------
(* Failures after the response stage                                       *)

\* C24: a call of the critique, research or conclusion stage that raises
\* changes its own slot only: the slot gets the placeholder with the error text
\* (agreement_level 0.5; confidence 0.0 and no sources; confidence 0.0 and
\* final_position "neutral"), every other entry of the result is as it was, and
\* every slot whose call returned holds the payload of its own call.
C24_FailureIsLocal ==
    /\ [](/\ \A c \in completed \ raised :
                /\ c[1] = "critique" =>
                      result.critiques[c[2]][c[3]]
                          = AgentCritique(c[2], c[3], result.responses[c[3]])
                /\ c[1] = "research" => result.research[c[2]] = AgentResearch(c[2])
                /\ c[1] = "conclusion" => result.conclusions[c[2]] = AgentConclusion(c[2]))
    /\ [][(inflight # NoCall /\ inflight' = NoCall /\ inflight \in raised'
                /\ inflight[1] # "response") =>
            LET a   == inflight[2]
                b   == inflight[3]
                err == "Error: " \o ErrorText
            IN  /\ result'.responses = result.responses
                /\ inflight[1] = "critique" =>
                      /\ result'.critiques[a][b].critique = err
                      /\ result'.critiques[a][b].agreement_level = 50
                      /\ Entries2(result'.critiques)
                            = Entries2(result.critiques) \cup {<<a, b>>}
                      /\ \A p \in Entries2(result.critiques) \ {<<a, b>>} :
                            result'.critiques[p[1]][p[2]] = result.critiques[p[1]][p[2]]
                      /\ result'.research = result.research
                      /\ result'.conclusions = result.conclusions
                /\ inflight[1] = "research" =>
                      /\ result'.research[a].findings = err
                      /\ result'.research[a].confidence = 0
                      /\ result'.research[a].sources = <<>>
                      /\ DOMAIN result'.research = DOMAIN result.research \cup {a}
                      /\ \A o \in DOMAIN result.research \ {a} :
                            result'.research[o] = result.research[o]
                      /\ result'.critiques = result.critiques
                      /\ result'.conclusions = result.conclusions
                /\ inflight[1] = "conclusion" =>
                      /\ result'.conclusions[a].summary = err
                      /\ result'.conclusions[a].confidence = 0
                      /\ result'.conclusions[a].final_position = "neutral"
                      /\ DOMAIN result'.conclusions = DOMAIN result.conclusions \cup {a}
                      /\ \A o \in DOMAIN result.conclusions \ {a} :
                            result'.conclusions[o] = result.conclusions[o]
                      /\ result'.critiques = result.critiques
                      /\ result'.research = result.research]_vars

C24_Witness ==
    /\ stage = "returned"
    /\ Len(roster) = 3
    /\ \A c \in raised : c[1] # "response"
    /\ \E c \in raised : c[1] = "critique"
    /\ \E c \in raised : c[1] = "research"
    /\ \E c \in raised : c[1] = "conclusion"
    /\ \E a \in RosterSet : result.research[a] = AgentResearch(a)

-----------------------------------------------------------------------------
(* The heuristics of the provider-backed agents                            *)
(* Confidence is kept in units of 1/20000 (0.5 is 10000, 0.95 is 19000,    *)
(* 0.6 is 12000, 0.98 is 19600, L/5000 is 4*L, L/4000 is 5*L);             *)
(* agreement_level is kept as the exact ratio num/den.                     *)

\* The number of terms in positive_terms and in negative_terms.
LexiconSize == 6

\* The most bullet lines a remote answer holds here.
MaxPoints == 7

\* len(response_content) of the remote answers tried.
Lengths == {0, 1, 1519, 1520, 2249, 2250, 2251, 5000, 100000}

Min2(x, y) == IF x <= y THEN x ELSE y

\* confidence = min(0.5 + len/5000, 0.95), for Grok min(0.6 + len/4000, 0.98)
ResponseConfidenceUnclamped(a, length) ==
    IF a = "agent-gpt" THEN 10000 + 4 * length ELSE 12000 + 5 * length

ResponseConfidence(a, length) ==
    IF a = "agent-gpt" THEN Min2(10000 + 4 * length, 19000)
                       ELSE Min2(12000 + 5 * length, 19600)

\* agreement_level: the default, replaced by positive/(positive+negative) when
\* a term of either lexicon was found.
AgreementLevel(a, positive_count, negative_count) ==
    IF positive_count + negative_count > 0
    THEN [num |-> positive_count, den |-> positive_count + negative_count]
    ELSE IF a = "agent-gpt" THEN [num |-> 1, den |-> 2] ELSE [num |-> 2, den |-> 5]

\* key_points: the default, replaced by extracted_points[:5] when there are any.
KeyPoints(a, extracted_points) ==
    IF extracted_points # <<>>
    THEN SubSeq(extracted_points, 1, Min2(5, Len(extracted_points)))
    ELSE <<"Point extracted from the critique">>

InitHeuristics ==
    /\ roster \in {<<"agent-gpt">>, <<"agent-grok">>}
    /\ result = EmptyResult
    /\ stage = "heuristics"
    /\ i = 0
    /\ j = 0
    /\ inflight = NoCall
    /\ started = {}
    /\ completed = {}
    /\ raised = {}
    /\ conclArg = EmptyMap
    /\ critArg = EmptyMap
    /\ env = {}
    /\ questions = {}
    /\ contexts = {}
    /\ nextId = 1
    /\ handlers = <<>>
    /\ runs = <<>>
    /\ nSubmits = 0
    /\ deleted = {}
    /\ api_keys = {}

\* generate_response with a remote answer of the given length: `inflight` keeps
\* the call and what the remote answer was like.
HeuristicResponse ==
    /\ stage = "heuristics"
    /\ \E length \in Lengths :
        /\ inflight' = <<"response", roster[1], [length |-> length]>>
        /\ result' = [result EXCEPT !.responses =
                         Put(@, roster[1],
                             [confidence |-> ResponseConfidence(roster[1], length)])]
    /\ UNCHANGED <<roster, stage, i, j, started, completed, raised, conclArg, critArg, svars>>

\* generate_critique with a remote answer in which the given numbers of lexicon
\* terms and of bullet lines were found.
HeuristicCritique ==
    /\ stage = "heuristics"
    /\ \E positive \in 0..LexiconSize, negative \in 0..LexiconSize, points \in 0..MaxPoints :
        /\ inflight' = <<"critique", roster[1],
                         [positive |-> positive, negative |-> negative, points |-> points]>>
        /\ result' = [result EXCEPT !.critiques =
                         Put(@, roster[1],
                             [agreement_level |-> AgreementLevel(roster[1], positive, negative),
                              key_points |-> KeyPoints(roster[1], [k \in 1..points |-> "point"])])]
    /\ UNCHANGED <<roster, stage, i, j, started, completed, raised, conclArg, critArg, svars>>

NextHeuristics == HeuristicResponse \/ HeuristicCritique

SpecHeuristics == InitHeuristics /\ [][NextHeuristics]_vars

\* C25: the numbers the heuristics derive stay in [0,1]. For lexicon counts in
\* 0..6, agreement_level is positive/(positive+negative) when the sum is
\* positive and otherwise the default (0.5 for GPT, 0.4 for Grok); for a
\* response of length L, confidence is min(0.5 + L/5000, 0.95) for GPT and
\* min(0.6 + L/4000, 0.98) for Grok; key_points has 1 to 5 entries.
C25_HeuristicsInRange ==
    LET a  == roster[1]
        in == inflight[3]
    IN  /\ inflight[1] = "response" =>
              LET c == result.responses[a].confidence
              IN  /\ 0 <= c /\ c <= 20000
                  /\ a = "agent-gpt" =>
                        /\ c <= 19000
                        /\ in.length <= 2250 => c = 10000 + 4 * in.length
                        /\ in.length >= 2250 => c = 19000
                  /\ a = "agent-grok" =>
                        /\ c <= 19600
                        /\ in.length <= 1520 => c = 12000 + 5 * in.length
                        /\ in.length >= 1520 => c = 19600
        /\ inflight[1] = "critique" =>
              LET g == result.critiques[a].agreement_level
                  k == result.critiques[a].key_points
              IN  /\ g.den > 0
                  /\ 0 <= g.num /\ g.num <= g.den
                  /\ in.positive + in.negative > 0 =>
                        g.num * (in.positive + in.negative) = in.positive * g.den
                  /\ in.positive + in.negative = 0 =>
                        g.num * 10 = (IF a = "agent-gpt" THEN 5 ELSE 4) * g.den
                  /\ Len(k) >= 1 /\ Len(k) <= 5

C25_Witness ==
    /\ stage = "heuristics"
    /\ inflight[1] = "critique"
    /\ inflight[3].points = MaxPoints
    /\ inflight[3].positive = LexiconSize
    /\ inflight[3].negative = 0
    /\ Len(result.critiques[roster[1]].key_points) = 5
    /\ roster[1] \in DOMAIN result.responses
    /\ result.responses[roster[1]].confidence = 19600

-----------------------------------------------------------------------------
(* The single commit of a background run                                   *)

\* C26: a triggered run stores its results in one commit made after all four
\* stages. Of a triggered question that receives no direct submission, every
\* status poll answers progress 0 ("pending") or 100 ("complete"), never 25, 50
\* or 75, and no fetch shows a non-empty responses map with an empty
\* conclusions map: this holds when the question is triggered and every step
\* other than the commit of a direct submission to it keeps it.
C26_SingleCommit ==
    [][LET AllOrNothing(qs, ctxs, q) ==
               LET s == CheckStatusReply(qs, ctxs, q)
                   g == GetContextReply(qs, ctxs, q)
               IN  /\ s.status = 200 =>
                         \/ s.body.progress = 0 /\ s.body.status = "pending"
                         \/ s.body.progress = 100 /\ s.body.status = "complete"
                   /\ g.status = 200 =>
                         ~(g.body.responses # EmptyMap /\ g.body.conclusions = EmptyMap)
           DirectCommit(q) ==
               \E h \in Handlers :
                   /\ handlers[h].pc = "loaded"
                   /\ handlers'[h].pc = "idle"
                   /\ handlers[h].qid = q
       IN  \A q \in DOMAIN runs' :
               /\ q \notin DOMAIN runs => AllOrNothing(questions', contexts', q)
               /\ (q \in DOMAIN runs /\ AllOrNothing(questions, contexts, q)
                     /\ ~DirectCommit(q))
                  => AllOrNothing(questions', contexts', q)]_vars

C26_Witness ==
    \E q \in DOMAIN runs :
        /\ nSubmits = 0
        /\ runs[q].pc = "finished"
        /\ CheckStatusReply(questions, contexts, q).status = 200
        /\ CheckStatusReply(questions, contexts, q).body.progress = 100
        /\ GetContextReply(questions, contexts, q).body.conclusions # EmptyMap

-----------------------------------------------------------------------------
(* A run whose question was deleted                                        *)

-----------------------------------------------------------------------------
(* A run that ends in the error record                                     *)

\* C28: when the pipeline run of a triggered question ends in the error record
\* ("error" and "question", none of the four stage maps), the thread's commit
\* changes no stage map of any stored context; a finished thread never acts
\* again, so the poll of a question that answers progress 0 after its thread
\* finished keeps answering progress 0 "pending" until a direct submission to
\* it is committed (or 404 once it is deleted); and no fetch or poll answered
\* 200 carries the error.
C28_ErrorRunStoresNothing ==
    /\ [](\A q \in RequestIds :
              /\ CheckStatusReply(questions, contexts, q).status = 200 =>
                    "error" \notin DOMAIN CheckStatusReply(questions, contexts, q).body
              /\ GetContextReply(questions, contexts, q).status = 200 =>
                    "error" \notin DOMAIN GetContextReply(questions, contexts, q).body)
    /\ [][LET Pending(qs, ctxs, q) ==
                  /\ CheckStatusReply(qs, ctxs, q).status = 200
                  /\ CheckStatusReply(qs, ctxs, q).body = [progress |-> 0, status |-> "pending"]
              DirectCommitTo(q) ==
                  \E h \in Handlers :
                      /\ handlers[h].pc = "loaded"
                      /\ handlers'[h].pc = "idle"
                      /\ handlers[h].qid = q
          IN  \A q \in DOMAIN runs :
                  /\ (runs[q].pc = "loaded" /\ RunStep(q)
                        /\ DOMAIN runs[q].result = {"error", "question"}) =>
                        /\ contexts' = contexts
                        /\ questions' = questions
                        /\ runs'[q].pc = "finished"
                  /\ runs[q].pc = "finished" => ~RunStep(q)
                  /\ (runs[q].pc = "finished" /\ Pending(questions, contexts, q)
                        /\ ~DirectCommitTo(q)) =>
                        \/ Pending(questions', contexts', q)
                        \/ CheckStatusReply(questions', contexts', q).status = 404]_vars

C28_Witness ==
    \E q \in DOMAIN runs :
        /\ runs[q].pc = "finished"
        /\ nSubmits = 0
        /\ q \in QuestionIds
        /\ \A col \in Columns : ContextOf(contexts, q)[col] = EmptyMap
        /\ CheckStatusReply(questions, contexts, q).body = [progress |-> 0, status |-> "pending"]

-----------------------------------------------------------------------------
(* The AgentManager constructor and the runner's check                     *)

\* The most calls of one run that raise here.
MaxRaised == 1

\* The agent_id of the agent the constructor stores under a key: the default
\* argument of GPTAgent, ClaudeAgent and GrokAgent, the first argument of
\* MockAgent.
AgentIdUnder(key) ==
    CASE key = "agent-gpt"    -> "agent-gpt"
      [] key = "agent-claude" -> "agent-claude"
      [] key = "agent-grok"   -> "agent-grok"

\* _initialize_agents when the constructor of a real agent raises after `added`
\* were stored: the except branch stores the three mock agents, a key that is
\* there keeps its place in the dict and the others follow.
InitializeAgentsRaised(added) ==
    added \o SelectSeq(MockRoster, LAMBDA a : \A k \in DOMAIN added : added[k] # a)

\* Every roster the constructor can leave for a request and an environment.
ConstructedRosters(use_real_agents, environ) ==
    LET real == InitializeAgents(TRUE, environ)
    IN  {InitializeAgents(use_real_agents, environ)}
        \cup (IF use_real_agents /\ environ \cap ProviderKeys # {}
              THEN {InitializeAgentsRaised(SubSeq(real, 1, k)) : k \in 0..(Len(real) - 1)}
              ELSE {})

InitManager ==
    /\ env \in SUBSET ProviderKeys
    /\ questions = {}
    /\ contexts = {}
    /\ nextId = 1
    /\ handlers = [h \in Handlers |-> Idle]
    /\ runs = <<>>
    /\ nSubmits = 0
    /\ deleted = {}
    /\ api_keys = {}
    /\ roster = <<>>
    /\ result = EmptyMap
    /\ stage = "idle"
    /\ i = 0
    /\ j = 0
    /\ inflight = NoCall
    /\ started = {}
    /\ completed = {}
    /\ raised = {}
    /\ conclArg = EmptyMap
    /\ critArg = EmptyMap

\* agent_manager = AgentManager(use_real_agents=use_real_agents)
ManagerInit(q) ==
    /\ q \in DOMAIN runs
    /\ runs[q].pc = "started"
    /\ roster' \in ConstructedRosters(runs[q].use_real_agents, env)
    /\ stage' = "entered"
    /\ runs' = [runs EXCEPT ![q].pc = "running"]
    /\ UNCHANGED <<result, i, j, inflight, started, completed, raised, conclArg, critArg,
                   env, api_keys, questions, contexts, nextId, handlers, nSubmits, deleted>>

\* process_question_with_agents after the constructor: the "No agents
\* available" return, or process_question is entered.
ProcessQuestionWithAgents ==
    /\ stage = "entered"
    /\ IF roster = <<>>
       THEN /\ result' = NoAgentsResult
            /\ stage' = "returned"
            /\ UNCHANGED <<i, j>>
       ELSE /\ result' = EmptyResult
            /\ LET p == Seek("response", 1, 1, roster, <<>>)
               IN  stage' = p.stage /\ i' = p.i /\ j' = p.j
    /\ UNCHANGED <<roster, inflight, started, completed, raised, conclArg, critArg, svars>>

BoundedCallRaise ==
    /\ Cardinality(raised) < MaxRaised
    /\ CallRaise

NextManager ==
    \/ TriggerOnce
    \/ \E q \in RequestIds : ManagerInit(q)
    \/ ProcessQuestionWithAgents
    \/ CallStart
    \/ CallReturn
    \/ BoundedCallRaise
    \/ PipelineReturn

SpecManager == InitManager /\ [][NextManager]_vars

-----------------------------------------------------------------------------
(* API keys: require_api_key and the /api/keys routes                      *)

\* The most credentials created here.
MaxKeys == 2

\* A header or query parameter that was not sent: request.headers.get and
\* request.args.get give None.
None == "None"

\* ApiKey.generate_key(): a token no other credential has.
GenerateKey(n) == "token-" \o ToString(n)

\* The X-API-Key values tried: none, the empty string, a token no credential
\* has, and the tokens handed out.
HeaderKeys == {None, "", "token-0"} \cup {GenerateKey(n) : n \in 1..(2 * MaxKeys)}

\* The admin_password query parameters tried.
Passwords == {None, "", "wrong", "admin"}

\* The POST /api/keys bodies tried; NoBody is a request without JSON.
CreateBodies ==
    {NoBody,
     [agent_id |-> "agent-gpt", agent_name |-> "GPT", admin_password |-> "admin"],
     [agent_id |-> "agent-grok", agent_name |-> "Grok", admin_password |-> "admin"],
     [agent_id |-> "agent-gpt", agent_name |-> "GPT", admin_password |-> "wrong"],
     [agent_id |-> "agent-gpt", agent_name |-> "GPT", admin_password |-> ""],
     [agent_id |-> "agent-gpt", agent_name |-> "GPT"],
     [agent_name |-> "GPT", admin_password |-> "admin"],
     [agent_name |-> "GPT", admin_password |-> "wrong"]}

\* The datetime.utcnow() values tried.
Times == {1, 2}

\* ApiKey(...) as inserted: is_active by its default, last_used_at NULL (0).
NewApiKey(id, key, data) ==
    [id |-> id, key |-> key, agent_id |-> data.agent_id, agent_name |-> data.agent_name,
     last_used_at |-> 0, is_active |-> TRUE]

\* create_api_key: the reply and the table after it.
CreateApiKeyOutcome(keys, n, data) ==
    IF data = NoBody
    THEN [reply |-> Reply(400, [error |-> "Missing request body"]), api_keys |-> keys]
    ELSE IF \E field \in {"agent_id", "agent_name", "admin_password"} : field \notin DOMAIN data
    THEN [reply |-> Reply(400, [error |-> "Missing required field"]), api_keys |-> keys]
    ELSE IF data.admin_password # "admin"
    THEN [reply |-> Reply(401, [error |-> "Invalid admin password"]), api_keys |-> keys]
    ELSE LET row == NewApiKey(Uuid4(n), GenerateKey(n), data)
         IN  [reply |-> Reply(200, [id |-> row.id, key |-> row.key, is_active |-> row.is_active]),
              api_keys |-> keys \cup {row}]

\* list_api_keys: to_dict of every row, which leaves the key out.
ListApiKeysReply(keys, admin_password) ==
    IF admin_password \in {None, ""} \/ admin_password # "admin"
    THEN Reply(401, [error |-> "Invalid admin password"])
    ELSE Reply(200, [api_keys |-> {[id |-> c.id, agent_id |-> c.agent_id,
                                    agent_name |-> c.agent_name,
                                    last_used_at |-> c.last_used_at,
                                    is_active |-> c.is_active] : c \in keys}])

\* revoke_api_key: the reply and the table after it.
RevokeApiKeyOutcome(keys, key_id, admin_password) ==
    IF admin_password \in {None, ""} \/ admin_password # "admin"
    THEN [reply |-> Reply(401, [error |-> "Invalid admin password"]), api_keys |-> keys]
    ELSE IF \A c \in keys : c.id # key_id
    THEN [reply |-> Reply(404, [error |-> "API key not found"]), api_keys |-> keys]
    ELSE [reply |-> Reply(200, [status |-> "success"]),
          api_keys |-> {IF c.id = key_id THEN [c EXCEPT !.is_active = FALSE] ELSE c
                        : c \in keys}]

\* require_api_key, lines 17-30: the 401 sent before anything is changed, or
\* status 0 when the request goes on.
RequireApiKeyReply(keys, api_key) ==
    IF api_key \in {None, ""}
    THEN Reply(401, [error |-> "API key is required"])
    ELSE IF \A c \in keys : ~(c.key = api_key /\ c.is_active)
    THEN Reply(401, [error |-> "Invalid or inactive API key"])
    ELSE Reply(0, <<>>)

\* An UPDATE that wrote the whole row as it was loaded.
TouchLastUsedWholeRow(keys, row, now) ==
    {IF c.id = row.id THEN [row EXCEPT !.last_used_at = now] ELSE c : c \in keys}

\* The UPDATE of require_api_key's commit: last_used_at of the row with the
\* loaded primary key, no other column.
TouchLastUsed(keys, row, now) ==
    {IF c.id = row.id THEN [c EXCEPT !.last_used_at = now] ELSE c : c \in keys}

InitAuth ==
    /\ api_keys = {}
    /\ nextId = 1
    /\ handlers = [h \in Handlers |-> Idle]
    /\ env = {}
    /\ questions = {}
    /\ contexts = {}
    /\ runs = <<>>
    /\ nSubmits = 0
    /\ deleted = {}
    /\ roster = <<>>
    /\ result = EmptyResult
    /\ stage = "returned"
    /\ i = 0
    /\ j = 0
    /\ inflight = NoCall
    /\ started = {}
    /\ completed = {}
    /\ raised = {}
    /\ conclArg = EmptyMap
    /\ critArg = EmptyMap

\* POST /api/keys
CreateApiKey ==
    /\ nextId <= MaxKeys
    /\ \E data \in CreateBodies :
        LET out == CreateApiKeyOutcome(api_keys, nextId, data)
        IN  /\ api_keys' = out.api_keys
            /\ nextId' = IF out.reply.status = 200 THEN nextId + 1 ELSE nextId
    /\ UNCHANGED <<env, questions, contexts, handlers, runs, nSubmits, deleted, pvars>>

\* GET /api/keys
ListApiKeys ==
    /\ \E admin_password \in Passwords :
        ListApiKeysReply(api_keys, admin_password).status \in {200, 401}
    /\ UNCHANGED vars

\* DELETE /api/keys/<key_id>
RevokeApiKey ==
    /\ \E key_id \in 0..MaxKeys, admin_password \in Passwords :
        api_keys' = RevokeApiKeyOutcome(api_keys, key_id, admin_password).api_keys
    /\ UNCHANGED <<env, questions, contexts, nextId, handlers, runs, nSubmits, deleted, pvars>>

\* A request to a route behind require_api_key: the header is read and the
\* credential queried.
RequireApiKeyLoad(h) ==
    /\ handlers[h].pc = "idle"
    /\ \E api_key \in HeaderKeys :
        IF RequireApiKeyReply(api_keys, api_key).status # 0
        THEN UNCHANGED handlers
        ELSE handlers' = [handlers EXCEPT ![h] =
                [pc |-> "authed",
                 row |-> CHOOSE c \in api_keys : c.key = api_key /\ c.is_active]]
    /\ UNCHANGED <<env, api_keys, questions, contexts, nextId, runs, nSubmits, deleted, pvars>>

\* key_entry.last_used_at = datetime.utcnow(); db.session.commit(): the UPDATE
\* carries the changed column. Then the route's function runs.
RequireApiKeyCommit(h) ==
    /\ handlers[h].pc = "authed"
    /\ \E now \in Times : api_keys' = TouchLastUsed(api_keys, handlers[h].row, now)
    /\ handlers' = [handlers EXCEPT ![h] = Idle]
    /\ UNCHANGED <<env, questions, contexts, nextId, runs, nSubmits, deleted, pvars>>

NextAuth ==
    \/ CreateApiKey
    \/ ListApiKeys
    \/ RevokeApiKey
    \/ \E h \in Handlers : RequireApiKeyLoad(h)
    \/ \E h \in Handlers : RequireApiKeyCommit(h)

SpecAuth == InitAuth /\ [][NextAuth]_vars

\* C30: API-key authentication. A request passes require_api_key only if its
\* X-API-Key is the key of a stored, active credential; once a credential is
\* revoked it stays revoked with its key, and every request carrying that key
\* is answered 401; a rejected request updates no last_used_at (only the
\* commit of a request that passed does); and creating, listing or revoking
\* with a wrong or missing admin password is answered 401 and leaves the
\* credential table as it was.
C30_ApiKeyAuth ==
    /\ [](/\ \A x \in HeaderKeys :
                RequireApiKeyReply(api_keys, x).status # 401 =>
                    \E c \in api_keys : c.key = x /\ c.is_active
          /\ \A c \in api_keys :
                ~c.is_active => RequireApiKeyReply(api_keys, c.key).status = 401
          /\ \A data \in CreateBodies :
                (data # NoBody /\ ("admin_password" \notin DOMAIN data
                                     \/ data.admin_password # "admin")) =>
                    /\ CreateApiKeyOutcome(api_keys, nextId, data).reply.status = 401
                    /\ CreateApiKeyOutcome(api_keys, nextId, data).api_keys = api_keys
          /\ \A admin_password \in Passwords \ {"admin"} :
                /\ ListApiKeysReply(api_keys, admin_password).status = 401
                /\ \A key_id \in 0..MaxKeys :
                      /\ RevokeApiKeyOutcome(api_keys, key_id, admin_password).reply.status = 401
                      /\ RevokeApiKeyOutcome(api_keys, key_id, admin_password).api_keys
                            = api_keys)
    /\ [][/\ \A c \in api_keys :
                ~c.is_active =>
                    \E d \in api_keys' : d.id = c.id /\ d.key = c.key /\ ~d.is_active
          /\ \A c \in api_keys, d \in api_keys' :
                (d.id = c.id /\ d.last_used_at # c.last_used_at) =>
                    \E h \in Handlers :
                        /\ handlers[h].pc = "authed"
                        /\ handlers[h].row.id = c.id
                        /\ handlers'[h].pc = "idle"]_vars


\* C30, amended: as C30, except that POST /api/keys answers 400, not 401, when
\* a required field (agent_id, agent_name or admin_password) is missing from
\* the body, whatever the password; with all three fields and a wrong password
\* it answers 401. In both cases the credential table is left as it was.
C30_ApiKeyAuthAmended ==
    /\ [](/\ \A x \in HeaderKeys :
                RequireApiKeyReply(api_keys, x).status # 401 =>
                    \E c \in api_keys : c.key = x /\ c.is_active
          /\ \A c \in api_keys :
                ~c.is_active => RequireApiKeyReply(api_keys, c.key).status = 401
          /\ \A data \in CreateBodies \ {NoBody} :
                LET out == CreateApiKeyOutcome(api_keys, nextId, data)
                    complete == {"agent_id", "agent_name", "admin_password"} \subseteq DOMAIN data
                IN  /\ ~complete => out.reply.status = 400 /\ out.api_keys = api_keys
                    /\ (complete /\ data.admin_password # "admin") =>
                          out.reply.status = 401 /\ out.api_keys = api_keys
          /\ \A admin_password \in Passwords \ {"admin"} :
                /\ ListApiKeysReply(api_keys, admin_password).status = 401
                /\ \A key_id \in 0..MaxKeys :
                      LET out == RevokeApiKeyOutcome(api_keys, key_id, admin_password)
                      IN  out.reply.status = 401 /\ out.api_keys = api_keys)
    /\ [][/\ \A c \in api_keys :
                ~c.is_active =>
                    \E d \in api_keys' : d.id = c.id /\ d.key = c.key /\ ~d.is_active
          /\ \A c \in api_keys, d \in api_keys' :
                (d.id = c.id /\ d.last_used_at # c.last_used_at) =>
                    \E h \in Handlers :
                        /\ handlers[h].pc = "authed"
                        /\ handlers[h].row.id = c.id
                        /\ handlers'[h].pc = "idle"
          /\ (\A h \in Handlers : handlers[h].pc # "authed") =>
                \A d \in api_keys' : \A c \in api_keys :
                    d.id = c.id => d.last_used_at = c.last_used_at]_vars

C30_Witness ==
    \E c \in api_keys, d \in api_keys :
        /\ ~c.is_active
        /\ c.last_used_at # 0
        /\ d.is_active
        /\ RequireApiKeyReply(api_keys, c.key).status = 401
        /\ RequireApiKeyReply(api_keys, d.key).status = 0
        /\ \E h \in Handlers : handlers[h].pc = "authed" /\ handlers[h].row.id = c.id

=============================================================================
